---------------------------- MODULE Spec2Model ----------------------------
(***************************************************************************)
(* Model of degeneracy_detection.py: detection of rigid subchains in       *)
(* kinematic chains by means of matroid theory.                            *)
(*                                                                         *)
(* A graph is a record [n, edges]: vertices 0..n-1 and a set of edges,     *)
(* each edge the set {u, v} of its two endpoints (a finite simple graph,   *)
(* which is what from_graph6 builds).                                      *)
(***************************************************************************)
EXTENDS Integers, Sequences, FiniteSets, TLC

\* Bounds of the model.
MaxV == 4          \* vertices of a graph drawn as the evaluator's input
MaxE == 5          \* edges of a graph drawn as the evaluator's input
MaxScrew == 3      \* largest screw system drawn as the evaluator's input
MaxFiles == 2      \* input files of a batch
MaxLines == 2      \* lines of one input file

\* Program constants.
NL == 10                  \* '\n', as a character code
num_processors == 8       \* the pool's size
call_screw_system == 3    \* screw_system of the only call site

VARIABLES
    \* one call of no_rigid_subchains
    my_graph,       \* the decoded graph handed to no_rigid_subchains
    screw_system,   \* the screw system of the call
    my_matroid,     \* Matroid(my_graph.incidence_matrix(), ring=GF(2))
    my_dual_rank,   \* my_matroid.dual().rank()
    co_rank,        \* loop variable of line 36
    co_flats,       \* my_dual_matroid.flats(co_rank), line 37
    visited,        \* the flats of co_flats the loop of line 39 has consumed
    co_flat,        \* loop variable of line 39
    pc,             \* position of the evaluator or of the classification
    ret,            \* "pending", or the value returned: "True" / "False"
    \* the partition of one graph and of a relabelling of it
    relabelling,    \* a permutation of the vertices of my_graph
    partition,      \* lines 84-86 on my_graph
    partition_rel,  \* lines 84-86 on the relabelled graph
    \* the batch: one task of the pool per input file
    files,          \* file -> the lines the iteration of line 76 yields
    wpc,            \* file -> position of the task processing it
    idx,            \* file -> number of the line being processed
    local,          \* file -> g6_string, my_graph, partition of that task
    baranov,        \* partition -> lines of my_output/baranov_<partition>
    assur           \* partition -> lines of my_output/assur_<partition>

evalVars == <<my_graph, screw_system, my_matroid, my_dual_rank, co_rank,
              co_flats, visited, co_flat, pc, ret>>
clsVars  == <<relabelling, partition, partition_rel>>
poolVars == <<files, wpc, idx, local, baranov, assur>>
vars == <<evalVars, clsVars, poolVars>>

---------------------------------------------------------------------------
\* Graphs

Vertices(G) == 0 .. (G.n - 1)

AllEdges(n) == {{u, v} : u \in 0 .. (n - 1), v \in 0 .. (n - 1)} \ {{u} : u \in 0 .. (n - 1)}

Graphs == UNION {{[n |-> n, edges |-> E] :
                    E \in {S \in SUBSET AllEdges(n) : Cardinality(S) <= MaxE}} :
                 n \in 0 .. MaxV}

---------------------------------------------------------------------------
\* The binary matroid of the incidence matrix

SymDiff(a, b) == (a \ b) \cup (b \ a)

\* One column per edge, one row per vertex, entry 1 where the vertex is an
\* endpoint of the edge.  A column is kept as its support (the set of rows
\* holding a 1); the column's label is the edge.
incidence_matrix(G) == [e \in G.edges |-> {v \in Vertices(G) : v \in e}]

\* Rank over GF(2) of a set of vectors given by their supports: Gaussian
\* elimination, the sum of two vectors being the symmetric difference.
RECURSIVE GF2Rank(_)
GF2Rank(vs) ==
    LET nz == vs \ {{}} IN
    IF nz = {} THEN 0
    ELSE LET c == CHOOSE x \in nz : TRUE
             p == CHOOSE v \in c : TRUE
             rest == {IF p \in d THEN SymDiff(d, c) ELSE d : d \in nz \ {c}}
         IN  1 + GF2Rank(rest)

\* A matroid is kept as its representation: a function from the groundset
\* to the columns.  A matrix without columns gives the matroid without
\* elements.
Matroid(matrix) == matrix

groundset(M) == DOMAIN M

RankOf(M, S) == GF2Rank({M[e] : e \in S})

rank(M) == RankOf(M, groundset(M))

\* M.delete(X): the groundset loses X, the rank function is restricted.
delete(M, X) == [e \in groundset(M) \ X |-> M[e]]

\* The dual is kept by its rank function on the same groundset:
\* r*(S) = |S| - r(E) + r(E \ S).
DualRankOf(M, S) == Cardinality(S) - rank(M) + RankOf(M, groundset(M) \ S)

dual_rank(M) == DualRankOf(M, groundset(M))

\* The flats of rank r of the matroid itself instead of its dual.
flats_of_primal(M, r) ==
    LET E  == groundset(M)
        rs == [S \in SUBSET E |-> RankOf(M, S)]
    IN  {F \in SUBSET E : /\ rs[F] = r
                          /\ \A e \in E \ F : rs[F \cup {e}] > rs[F]}

\* my_dual_matroid.flats(r): every closed set of the dual of rank r.
flats(M, r) ==
    LET E  == groundset(M)
        rs == [S \in SUBSET E |-> DualRankOf(M, S)]
    IN  {F \in SUBSET E : /\ rs[F] = r
                          /\ \A e \in E \ F : rs[F \cup {e}] > rs[F]}

\* The circuits of M: the minimal dependent sets.
Circuits(M) ==
    LET E  == groundset(M)
        rs == [S \in SUBSET E |-> RankOf(M, S)]
    IN  {C \in SUBSET E :
            /\ C # {}
            /\ rs[C] < Cardinality(C)
            /\ \A e \in C : rs[C \ {e}] = Cardinality(C) - 1}

\* M.components(): the classes of "lies on a common circuit with"; none for
\* the matroid without elements.
components(M) ==
    LET Cs == Circuits(M)
    IN  {{e} \cup UNION {C \in Cs : e \in C} : e \in groundset(M)}

\* Connected as "has no separation", which holds of the empty matroid too.
is_connected_or_empty(M) == Cardinality(components(M)) <= 1

\* M.is_connected(): exactly one component.
is_connected(M) == Cardinality(components(M)) = 1

---------------------------------------------------------------------------
\* The evaluator

mobility(rk, joints, screw) == screw * (rk - joints) + joints

\* The body of the inner loop with the size test of line 53 not strict.
RigidSubchainOrWhole(M, F, screw) ==
    LET sub_matroid == delete(M, F)
        sub_joints == Cardinality(groundset(sub_matroid))
    IN  /\ is_connected(sub_matroid)
        /\ mobility(rank(sub_matroid), sub_joints, screw) <= 0
        /\ sub_joints <= Cardinality(groundset(M))

\* Lines 42-53: the body of the inner loop; TRUE when line 54 returns False.
RigidProperSubchain(M, F, screw) ==
    LET sub_matroid == delete(M, F)
        sub_groundset == groundset(sub_matroid)
        sub_rank == rank(sub_matroid)
        sub_joints == Cardinality(sub_groundset)
        sub_mobility == mobility(sub_rank, sub_joints, screw)
    IN  /\ is_connected(sub_matroid)
        /\ sub_mobility <= 0
        /\ sub_joints < Cardinality(groundset(M))

\* The value no_rigid_subchains returns.
no_rigid_subchains(G, screw) ==
    LET M == Matroid(incidence_matrix(G))
    IN  \A r \in 0 .. dual_rank(M) :
            \A F \in flats(M, r) : ~RigidProperSubchain(M, F, screw)

\* The parts of the state a specification does not use stay at these values.
EvalIdle ==
    /\ screw_system = call_screw_system
    /\ my_matroid = <<>>
    /\ my_dual_rank = 0
    /\ co_rank = -1
    /\ co_flats = {}
    /\ visited = {}
    /\ co_flat = {}
    /\ ret = "pending"

ClsIdle ==
    /\ relabelling = <<>>
    /\ partition = <<>>
    /\ partition_rel = <<>>

PoolIdle ==
    /\ files = <<>>
    /\ wpc = <<>>
    /\ idx = <<>>
    /\ local = <<>>
    /\ baranov = <<>>
    /\ assur = <<>>

EvalInit ==
    /\ my_graph \in Graphs
    /\ screw_system \in 1 .. MaxScrew
    /\ my_matroid = <<>>
    /\ my_dual_rank = 0
    /\ co_rank = -1
    /\ co_flats = {}
    /\ visited = {}
    /\ co_flat = {}
    /\ pc = "build"
    /\ ret = "pending"
    /\ ClsIdle
    /\ PoolIdle

\* Lines 26-33.
EvalBuild ==
    /\ pc = "build"
    /\ my_matroid' = Matroid(incidence_matrix(my_graph))
    /\ my_dual_rank' = dual_rank(my_matroid')
    /\ pc' = "rank_loop"
    /\ UNCHANGED <<my_graph, screw_system, co_rank, co_flats, visited, co_flat, ret>>
    /\ UNCHANGED <<clsVars, poolVars>>

\* Lines 36-37, and line 57 when the range is exhausted.
NextRank ==
    /\ pc = "rank_loop"
    /\ \/ /\ co_rank + 1 <= my_dual_rank
          /\ co_rank' = co_rank + 1
          /\ co_flats' = flats(my_matroid, co_rank')
          /\ visited' = {}
          /\ pc' = "flat_loop"
          /\ UNCHANGED ret
       \/ /\ co_rank + 1 > my_dual_rank
          /\ ret' = "True"
          /\ pc' = "done"
          /\ UNCHANGED <<co_rank, co_flats, visited>>
    /\ UNCHANGED <<my_graph, screw_system, my_matroid, my_dual_rank, co_flat>>
    /\ UNCHANGED <<clsVars, poolVars>>

\* Lines 39-54: one iteration of the inner loop, on any flat not yet taken.
VisitFlat ==
    /\ pc = "flat_loop"
    /\ \E F \in co_flats \ visited :
          /\ co_flat' = F
          /\ visited' = visited \cup {F}
          /\ IF RigidProperSubchain(my_matroid, F, screw_system)
                THEN ret' = "False" /\ pc' = "done"
                ELSE UNCHANGED <<ret, pc>>
    /\ UNCHANGED <<my_graph, screw_system, my_matroid, my_dual_rank, co_rank, co_flats>>
    /\ UNCHANGED <<clsVars, poolVars>>

\* Line 39: the flats of this rank are exhausted.
FlatsExhausted ==
    /\ pc = "flat_loop"
    /\ co_flats \ visited = {}
    /\ pc' = "rank_loop"
    /\ UNCHANGED <<my_graph, screw_system, my_matroid, my_dual_rank, co_rank,
                   co_flats, visited, co_flat, ret>>
    /\ UNCHANGED <<clsVars, poolVars>>

EvalNext == EvalBuild \/ NextRank \/ VisitFlat \/ FlatsExhausted

SpecEval == EvalInit /\ [][EvalNext]_vars

---------------------------------------------------------------------------
\* The partition of a graph (lines 83-86)

Degree(G, v) == Cardinality({e \in G.edges : v \in e})

\* my_graph.degree_sequence(): the degrees, largest first.
RECURSIVE DegreesOf(_, _)
DegreesOf(G, S) ==
    IF S = {} THEN <<>>
    ELSE LET v == CHOOSE x \in S : \A y \in S : Degree(G, x) >= Degree(G, y)
         IN  <<Degree(G, v)>> \o DegreesOf(G, S \ {v})

degree_sequence(G) == DegreesOf(G, Vertices(G))

\* list.count(i)
count(seq, i) == Cardinality({k \in DOMAIN seq : seq[k] = i})

\* max(list), of a list that is not empty
max(seq) == CHOOSE m \in {seq[k] : k \in DOMAIN seq} :
                \A k \in DOMAIN seq : seq[k] <= m

\* The comprehension with range(2, max(graph_deg_sequence)).
PartitionMissesTop(ds) == [k \in 1 .. (max(ds) - 2) |-> count(ds, k + 1)]

\* [graph_deg_sequence.count(i) for i in range(2, max(graph_deg_sequence) + 1)]
PartitionOf(ds) == [k \in 1 .. (max(ds) - 1) |-> count(ds, k + 1)]

\* The same abstract graph with its vertices renamed by the permutation p.
Relabel(G, p) == [n |-> G.n, edges |-> {{p[x] : x \in e} : e \in G.edges}]

ClsInit ==
    /\ my_graph \in Graphs
    /\ relabelling \in Permutations(Vertices(my_graph))
    /\ partition = <<>>
    /\ partition_rel = <<>>
    /\ pc = "classify"
    /\ EvalIdle
    /\ PoolIdle

\* Lines 84-86 on the graph; max() of an empty list raises ValueError.
Classify ==
    /\ pc = "classify"
    /\ \/ /\ degree_sequence(my_graph) = <<>>
          /\ pc' = "raised"
          /\ UNCHANGED partition
       \/ /\ degree_sequence(my_graph) # <<>>
          /\ partition' = PartitionOf(degree_sequence(my_graph))
          /\ pc' = "classify_relabelled"
    /\ UNCHANGED <<my_graph, screw_system, my_matroid, my_dual_rank, co_rank,
                   co_flats, visited, co_flat, ret>>
    /\ UNCHANGED <<relabelling, partition_rel, poolVars>>

\* Lines 84-86 on the relabelled graph.
ClassifyRelabelled ==
    /\ pc = "classify_relabelled"
    /\ partition_rel' = PartitionOf(degree_sequence(Relabel(my_graph, relabelling)))
    /\ pc' = "classified"
    /\ UNCHANGED <<my_graph, screw_system, my_matroid, my_dual_rank, co_rank,
                   co_flats, visited, co_flat, ret>>
    /\ UNCHANGED <<relabelling, partition, poolVars>>

ClsNext == Classify \/ ClassifyRelabelled

SpecPartition == ClsInit /\ [][ClsNext]_vars

---------------------------------------------------------------------------
\* Text.  A string is a sequence of character codes.

\* str.replace(old, ""): every occurrence of the character is removed.
Remove(str, ch) == SelectSeq(str, LAMBDA c : c # ch)

\* str(n) of a natural number: its decimal digits.
RECURSIVE str(_)
str(n) == IF n < 10 THEN <<48 + n>> ELSE str(n \div 10) \o <<48 + (n % 10)>>

\* The text up to the first '\n' (all of it when there is none).
UpToNewline(s) ==
    IF \E k \in DOMAIN s : s[k] = NL
    THEN SubSeq(s, 1, (CHOOSE k \in DOMAIN s :
                          s[k] = NL /\ \A j \in 1 .. (k - 1) : s[j] # NL) - 1)
    ELSE s

\* from_graph6 of the formats with n <= 62: the first character is n + 63,
\* the others hold, six bits each, the upper triangle of the adjacency matrix
\* column by column.  [ok |-> FALSE] stands for the exception it raises on a
\* corrupt string.
Corrupt == [ok |-> FALSE, n |-> 0, edges |-> {}]

from_graph6(g6_string) ==
    LET ss == UpToNewline(g6_string) IN
    IF ss = <<>> \/ (\E k \in DOMAIN ss : ss[k] < 63 \/ ss[k] > 126) \/ ss[1] = 126
    THEN Corrupt
    ELSE LET n == ss[1] - 63
             data == Tail(ss)
             nbits == (n * (n - 1)) \div 2
             expected == nbits + ((6 - nbits) % 6)
             bit(k) == ((data[(k \div 6) + 1] - 63) \div (2 ^ (5 - (k % 6)))) % 2
         IN  IF 6 * Len(data) # expected
             THEN Corrupt
             ELSE [ok |-> TRUE, n |-> n,
                   edges |-> {{i, j} : i \in 0 .. (n - 1), j \in 0 .. (n - 1)}
                             \cap {e \in AllEdges(n) :
                                     \E i \in e : \E j \in e :
                                        j < i /\ bit(((i * (i - 1)) \div 2) + j) = 1}]

GraphOf(dec) == [n |-> dec.n, edges |-> dec.edges]

\* number_assur: the number of orbits of the automorphism group, as text.
Automorphisms(G) ==
    {p \in Permutations(Vertices(G)) : Relabel(G, p).edges = G.edges}

Orbits(G) == {{p[v] : p \in Automorphisms(G)} : v \in Vertices(G)}

number_assur(G) == str(Cardinality(Orbits(G)))

---------------------------------------------------------------------------
\* The batch: p.map(process, input_files)

FileIds == 1 .. MaxFiles

\* The encodings the input files are made of:
\*   "Bw" the triangle, "Cw" the triangle and an isolated vertex,
\*   "C{" the triangle with a pendant edge, "A?" two vertices and no edge,
\*   "?" the graph with no vertex, "B" a corrupt string.
Encodings == {<<66, 119>>, <<67, 119>>, <<67, 123>>, <<65, 63>>, <<63>>, <<66>>}

\* The lines the iteration over a text file yields: each ends with '\n',
\* but for the last one when the file does not end with a newline.
FileContents ==
    UNION {{[k \in 1 .. len |->
                IF k = len /\ ~terminated THEN body[k] ELSE body[k] \o <<NL>>] :
              body \in [1 .. len -> Encodings], terminated \in BOOLEAN} :
           len \in 0 .. MaxLines}

NoLocal == [g6_string |-> <<>>, my_graph |-> [n |-> 0, edges |-> {}],
            partition |-> <<>>, ln |-> 0]

Running == {f \in DOMAIN wpc : wpc[f] \in {"line", "write_baranov", "write_assur"}}

\* open(name, "a").write(text): the file is created when missing.  An entry
\* keeps, beside the text, the task and the line it was written for.
AppendTo(bucket, key, entry) ==
    IF key \in DOMAIN bucket
    THEN [bucket EXCEPT ![key] = Append(@, entry)]
    ELSE bucket @@ (key :> <<entry>>)

PoolInit ==
    /\ files \in [FileIds -> FileContents]
    /\ wpc = [f \in FileIds |-> "pending"]
    /\ idx = [f \in FileIds |-> 0]
    /\ local = [f \in FileIds |-> NoLocal]
    /\ baranov = <<>>
    /\ assur = <<>>
    /\ my_graph = [n |-> 0, edges |-> {}]
    /\ pc = "pool"
    /\ EvalIdle
    /\ ClsIdle

\* A worker of the pool takes the task of file f: lines 115-119 and 75.
\* p.map cuts input_files into chunks of ceil(len / (4 * num_processors))
\* files, one file per task for up to 32 files; a worker runs one task at a
\* time, and a task that raises leaves the other tasks running.
Dispatch(f) ==
    /\ wpc[f] = "pending"
    /\ Cardinality(Running) < num_processors
    /\ wpc' = [wpc EXCEPT ![f] = "line"]
    /\ idx' = [idx EXCEPT ![f] = 1]
    /\ UNCHANGED <<files, local, baranov, assur>>
    /\ UNCHANGED <<evalVars, clsVars>>

\* Line 76: the file is exhausted, the task returns.
EndOfFile(f) ==
    /\ wpc[f] = "line"
    /\ idx[f] > Len(files[f])
    /\ wpc' = [wpc EXCEPT ![f] = "done"]
    /\ UNCHANGED <<files, idx, local, baranov, assur>>
    /\ UNCHANGED <<evalVars, clsVars>>

\* Line 79.
G6StringOf(line) == Remove(line, line[Len(line)])

\* Lines 79-81 on the line the task of f is at.
G6StringAt(f) == G6StringOf(files[f][idx[f]])

DecodedAt(f) == from_graph6(G6StringAt(f))

SeenAt(f) == [NoLocal EXCEPT !.g6_string = G6StringAt(f), !.ln = idx[f]]

\* Lines 76-81: from_graph6 raises.  Nothing catches an exception: it ends
\* the task.
DecodeRaises(f) ==
    /\ wpc[f] = "line"
    /\ idx[f] <= Len(files[f])
    /\ ~DecodedAt(f).ok
    /\ local' = [local EXCEPT ![f] = SeenAt(f)]
    /\ wpc' = [wpc EXCEPT ![f] = "raised"]
    /\ UNCHANGED <<files, idx, baranov, assur>>
    /\ UNCHANGED <<evalVars, clsVars>>

\* Lines 76-86: max() of the empty degree sequence raises.
PartitionRaises(f) ==
    /\ wpc[f] = "line"
    /\ idx[f] <= Len(files[f])
    /\ DecodedAt(f).ok
    /\ degree_sequence(GraphOf(DecodedAt(f))) = <<>>
    /\ local' = [local EXCEPT ![f] = [SeenAt(f) EXCEPT !.my_graph = GraphOf(DecodedAt(f))]]
    /\ wpc' = [wpc EXCEPT ![f] = "raised"]
    /\ UNCHANGED <<files, idx, baranov, assur>>
    /\ UNCHANGED <<evalVars, clsVars>>

\* Lines 76-91: the line is decoded, its partition computed and the chain
\* evaluated.
Evaluate(f) ==
    /\ wpc[f] = "line"
    /\ idx[f] <= Len(files[f])
    /\ DecodedAt(f).ok
    /\ LET G == GraphOf(DecodedAt(f)) IN
          /\ degree_sequence(G) # <<>>
          /\ local' = [local EXCEPT ![f] =
                         [SeenAt(f) EXCEPT !.my_graph = G,
                                           !.partition = PartitionOf(degree_sequence(G))]]
          /\ IF no_rigid_subchains(G, call_screw_system)
             THEN wpc' = [wpc EXCEPT ![f] = "write_baranov"] /\ UNCHANGED idx
             ELSE idx' = [idx EXCEPT ![f] = @ + 1] /\ UNCHANGED wpc
    /\ UNCHANGED <<files, baranov, assur>>
    /\ UNCHANGED <<evalVars, clsVars>>

\* Lines 92-94.
WriteBaranov(f) ==
    /\ wpc[f] = "write_baranov"
    /\ baranov' = AppendTo(baranov, local[f].partition,
                           [text |-> local[f].g6_string \o <<NL>>,
                            by |-> f, ln |-> local[f].ln])
    /\ wpc' = [wpc EXCEPT ![f] = "write_assur"]
    /\ UNCHANGED <<files, idx, local, assur>>
    /\ UNCHANGED <<evalVars, clsVars>>

\* Lines 96-99, and line 76 again.
WriteAssur(f) ==
    /\ wpc[f] = "write_assur"
    /\ assur' = AppendTo(assur, local[f].partition,
                         [text |-> number_assur(local[f].my_graph) \o <<NL>>,
                          by |-> f, ln |-> local[f].ln])
    /\ wpc' = [wpc EXCEPT ![f] = "line"]
    /\ idx' = [idx EXCEPT ![f] = @ + 1]
    /\ UNCHANGED <<files, local, baranov>>
    /\ UNCHANGED <<evalVars, clsVars>>

PoolNext ==
    \E f \in FileIds :
        \/ Dispatch(f)
        \/ EndOfFile(f)
        \/ DecodeRaises(f)
        \/ PartitionRaises(f)
        \/ Evaluate(f)
        \/ WriteBaranov(f)
        \/ WriteAssur(f)

SpecPool == PoolInit /\ [][PoolNext]_vars

---------------------------------------------------------------------------
\* Properties of the evaluator, checked under SpecEval

\* The vertices joined to v by a path of edges of E.
RECURSIVE ReachFrom(_, _)
ReachFrom(E, S) ==
    LET more == S \cup UNION {e \in E : e \cap S # {}}
    IN  IF more = S THEN S ELSE ReachFrom(E, more)

GraphComponents(n, E) == {ReachFrom(E, {v}) : v \in 0 .. (n - 1)}

\* The bridges of the graph: the edges whose removal disconnects two vertices.
Bridges(G) ==
    {e \in G.edges :
        Cardinality(GraphComponents(G.n, G.edges \ {e}))
            > Cardinality(GraphComponents(G.n, G.edges))}

\* The graph is one cycle of k edges (and, possibly, isolated vertices).
IsCycleGraph(G, k) ==
    LET on == {v \in Vertices(G) : Degree(G, v) > 0}
    IN  /\ Cardinality(G.edges) = k
        /\ Cardinality(on) = k
        /\ \A v \in on : Degree(G, v) = 2
        /\ \A v \in on : ReachFrom(G.edges, {v}) = on

\* C1: no_rigid_subchains returns False if and only if there are a rank r in
\* 0..rank(dual(M)) and a flat F of dual(M) of rank r such that M.delete(F) is
\* connected, screw_system * (rank - size) + size <= 0 and size < |groundset(M)|,
\* rank and size being those of M.delete(F); otherwise it returns True.  The
\* sub-matroid that is the whole of M never makes it return False.
C1_FalseIffRigidProperSubchain ==
    pc = "done" =>
        LET M == Matroid(incidence_matrix(my_graph))
            E == groundset(M)
            found ==
                \E r \in 0 .. dual_rank(M) : \E F \in flats(M, r) :
                    LET sub  == delete(M, F)
                        size == Cardinality(groundset(sub))
                    IN  /\ is_connected(sub)
                        /\ screw_system * (rank(sub) - size) + size <= 0
                        /\ size < Cardinality(E)
        IN  /\ ret \in {"True", "False"}
            /\ (ret = "False") <=> found
            /\ ret = "False" => groundset(delete(M, co_flat)) # E

\* The evaluator has returned False on a chain with a rigid proper subchain.
C1_Witness ==
    /\ pc = "done"
    /\ ret = "False"
    /\ co_flat # {}
    /\ co_rank > 0

\* C2: on the cycle matroid of the triangle (3 elements, rank 2) and of the
\* 4-bar linkage (4 elements, rank 3), with screw system 3, the evaluator
\* returns True, although it visits the top-rank flat of the dual, the whole
\* groundset, whose deletion leaves the empty sub-matroid of mobility 0.
C2_SingleCycleReturnsTrue ==
    (/\ pc = "done"
     /\ screw_system = 3
     /\ IsCycleGraph(my_graph, 3) \/ IsCycleGraph(my_graph, 4)) =>
        LET E == groundset(my_matroid)
            empty == delete(my_matroid, E)
        IN  /\ ret = "True"
            /\ rank(my_matroid) = Cardinality(E) - 1
            /\ co_rank = my_dual_rank
            /\ E \in visited
            /\ groundset(empty) = {}
            /\ screw_system * (rank(empty) - 0) + 0 = 0

\* The evaluator has returned True on a 4-bar linkage after visiting the flat
\* that is the whole groundset.
C2_Witness ==
    /\ pc = "done"
    /\ ret = "True"
    /\ screw_system = 3
    /\ IsCycleGraph(my_graph, 4)
    /\ groundset(my_matroid) \in visited

\* Some flat of rank 0 has been enumerated: the evaluator is in, or past, the
\* iteration with co_rank = 0 and has not gone on to co_rank = 1.
InRankZero == co_rank = 0 /\ pc \in {"flat_loop", "rank_loop", "done"}

\* C3 as stated: the iteration with co_rank = 0 enumerates exactly one flat,
\* the empty set, the sub-matroid obtained by deleting it is M itself, and the
\* iteration never returns False.
C3_RankZeroFlatIsEmpty ==
    InRankZero =>
        /\ co_flats = {{}}
        /\ \A F \in co_flats : delete(my_matroid, F) = my_matroid
        /\ ret # "False"

\* C3 as amended: the iteration with co_rank = 0 enumerates exactly one flat,
\* the set of the bridges of the graph.  Without a bridge it is the empty set,
\* the sub-matroid is M itself and the iteration never returns False.  With a
\* bridge the sub-matroid is M less its bridges, smaller than M, and the
\* iteration returns False exactly when that sub-matroid is connected and of
\* mobility <= 0.
C3_RankZeroFlatIsBridges ==
    InRankZero =>
        LET B    == Bridges(my_graph)
            sub  == delete(my_matroid, B)
            size == Cardinality(groundset(sub))
        IN  /\ co_flats = {B}
            /\ B = {} => (sub = my_matroid /\ ret # "False")
            /\ B # {} => size < Cardinality(groundset(my_matroid))
            /\ (pc = "done" /\ ret = "False") <=>
                   (/\ B \in visited
                    /\ B # {}
                    /\ is_connected(sub)
                    /\ screw_system * (rank(sub) - size) + size <= 0)

\* The iteration with co_rank = 0 has returned False on a graph with a bridge.
C3_Witness ==
    /\ InRankZero
    /\ pc = "done"
    /\ ret = "False"
    /\ Bridges(my_graph) # {}
    /\ co_flat = Bridges(my_graph)

---------------------------------------------------------------------------
\* Properties of the partition, checked under SpecPartition

MaxDegree(G) == CHOOSE d \in {Degree(G, v) : v \in Vertices(G)} :
                    \A v \in Vertices(G) : Degree(G, v) <= d

\* C7: for a graph of maximum degree D >= 2 the partition is the tuple of
\* length D-1 whose i-th entry (i = 0..D-2) is the number of vertices of
\* degree i+2; it is the same for every relabelling of the vertices; the
\* degree sequence [2,2,3,3] gives [2,2].
C7_PartitionCountsDegrees ==
    (pc = "classified" /\ MaxDegree(my_graph) >= 2) =>
        LET D == MaxDegree(my_graph) IN
        /\ Len(partition) = D - 1
        /\ \A i \in 0 .. (D - 2) :
              partition[i + 1] =
                  Cardinality({v \in Vertices(my_graph) : Degree(my_graph, v) = i + 2})
        /\ partition_rel = partition
        /\ degree_sequence(my_graph) = <<3, 3, 2, 2>> => partition = <<2, 2>>

\* A graph of degree sequence [2,2,3,3] and a relabelling that moves its
\* vertices have both been classified.
C7_Witness ==
    /\ pc = "classified"
    /\ degree_sequence(my_graph) = <<3, 3, 2, 2>>
    /\ Relabel(my_graph, relabelling) # my_graph
    /\ partition = <<2, 2>>

---------------------------------------------------------------------------
\* Properties of the batch, checked under SpecPool

\* Every task has returned or raised.
Settled == \A f \in FileIds : wpc[f] \in {"done", "raised"}

\* A line with only its line terminator removed.
StripTerminator(line) ==
    IF line[Len(line)] = NL THEN SubSeq(line, 1, Len(line) - 1) ELSE line

\* Every line of every input file ends with a newline.
WellTerminated ==
    \A f \in FileIds : \A k \in DOMAIN files[f] :
        files[f][k][Len(files[f][k])] = NL

\* What a line of an input file encodes.
ChainOf(line) == from_graph6(StripTerminator(line))

\* No line of an input file encodes the graph without vertices.
NoNullGraph ==
    \A f \in FileIds : \A k \in DOMAIN files[f] :
        ChainOf(files[f][k]).ok => ChainOf(files[f][k]).n > 0

\* The line encodes a chain with an edge, which the evaluator passes.
Passes(line) ==
    /\ ChainOf(line).ok
    /\ ChainOf(line).edges # {}
    /\ no_rigid_subchains(GraphOf(ChainOf(line)), call_screw_system)

KeyOf(line) == PartitionOf(degree_sequence(GraphOf(ChainOf(line))))

LinesOf(bucket, key) == IF key \in DOMAIN bucket THEN bucket[key] ELSE <<>>

\* C4: no two workers ever append to the same output bucket: the buckets
\* (kind, partition key) written for one input file are disjoint from those
\* written for every other input file.  (Stated of the buckets of the chains
\* with a vertex of degree 2 or more.)
C4_BucketsDisjoint ==
    /\ \A key \in DOMAIN baranov \ {<<>>} : \A i, j \in DOMAIN baranov[key] :
          baranov[key][i].by = baranov[key][j].by
    /\ \A key \in DOMAIN assur \ {<<>>} : \A i, j \in DOMAIN assur[key] :
          assur[key][i].by = assur[key][j].by

\* C5: a line that cannot be decoded is fatal for that line only: once the
\* batch is over, every line that encodes a chain (with an edge) the
\* evaluator passes has been written to its buckets, whatever corrupt lines
\* the files hold beside it.  (Stated of files whose lines all end with a
\* newline and of which none encodes the graph without vertices, so that a
\* corrupt line is the only failure of the batch.)
C5_CorruptLineFatalForItselfOnly ==
    (Settled /\ WellTerminated /\ NoNullGraph) =>
        \A f \in FileIds : \A k \in DOMAIN files[f] :
            Passes(files[f][k]) =>
                /\ \E i \in DOMAIN LinesOf(baranov, KeyOf(files[f][k])) :
                      LinesOf(baranov, KeyOf(files[f][k]))[i] =
                          [text |-> files[f][k], by |-> f, ln |-> k]
                /\ \E i \in DOMAIN LinesOf(assur, KeyOf(files[f][k])) :
                      /\ LinesOf(assur, KeyOf(files[f][k]))[i].by = f
                      /\ LinesOf(assur, KeyOf(files[f][k]))[i].ln = k

\* C6: a chain with no edge is never reported as passed: no line of a
\* baranov bucket encodes a graph without edges.
C6_EdgelessChainNeverPassed ==
    \A key \in DOMAIN baranov : \A i \in DOMAIN baranov[key] :
        from_graph6(baranov[key][i].text).edges # {}

\* C8: whenever no task is between its two appends, for each partition the
\* k-th line of the assur bucket is the orbit count of the graph encoded on
\* the k-th line of the baranov bucket.
C8_BucketsAligned ==
    (\A f \in FileIds : wpc[f] # "write_assur") =>
        /\ DOMAIN assur = DOMAIN baranov
        /\ \A key \in DOMAIN baranov :
              /\ Len(assur[key]) = Len(baranov[key])
              /\ \A k \in DOMAIN baranov[key] :
                    assur[key][k].text =
                        number_assur(GraphOf(from_graph6(baranov[key][k].text)))
                            \o <<NL>>

\* C9: after a batch, the baranov bucket of a partition holds, for each input
\* file, exactly one line per chain (with an edge) of that file with that
\* partition that passes, in the order of the file.  (Stated of files whose
\* lines all end with a newline and of which none encodes the graph without
\* vertices; the bucket of the chains without an edge is left out.)
C9_OneLinePerPassedChain ==
    (Settled /\ WellTerminated /\ NoNullGraph) =>
        \A f \in FileIds :
            \A key \in (DOMAIN baranov
                        \cup {KeyOf(files[f][k]) :
                                k \in {j \in DOMAIN files[f] : Passes(files[f][j])}})
                       \ {<<>>} :
                LET written == SelectSeq(LinesOf(baranov, key), LAMBDA e : e.by = f)
                    passed  == SelectSeq(files[f],
                                   LAMBDA line : Passes(line) /\ KeyOf(line) = key)
                IN  [k \in DOMAIN written |-> written[k].text] = passed

\* C10: the string handed to the decoder is the line read with only its line
\* terminator removed.
C10_OnlyTerminatorRemoved ==
    \A f \in FileIds :
        local[f].ln > 0 =>
            local[f].g6_string = StripTerminator(files[f][local[f].ln])

===========================================================================
